---------------------------- MODULE Spec2Model ----------------------------
(***************************************************************************)
(* Model of growth.py, the "Data Sweeper" Streamlit script.                *)
(*                                                                         *)
(* Streamlit executes the script from its first line to its last on every  *)
(* widget interaction: a button returns True only in the run its click     *)
(* started, every other widget returns the value the user last gave it.   *)
(* The state of a session is therefore the state of the widgets together   *)
(* with what the last run of the script put on the page.  Every action     *)
(* below is one user interaction followed by that complete run.            *)
(*                                                                         *)
(* Cell values are exact: a number is a normalised fraction n/d, a missing *)
(* value is NaN, a text is a string.  Floating-point rounding of the       *)
(* libraries is not represented.                                           *)
(***************************************************************************)
EXTENDS Integers, Sequences, FiniteSets, TLC

VARIABLES uploaded_files, rejected, clicked, selected_columns, options,
          scaling_method, detect_outliers, conversion_type,
          ingest_log, merged, cleaned, merged_df, numeric_cols, outliers,
          downloads, error

vars == <<uploaded_files, rejected, clicked, selected_columns, options,
          scaling_method, detect_outliers, conversion_type,
          ingest_log, merged, cleaned, merged_df, numeric_cols, outliers,
          downloads, error>>

\* Bounds of the explored sessions.
MaxFiles == 2
MaxRows == 4

-----------------------------------------------------------------------------
(* Cells: numbers (fractions), missing values, texts.                      *)

Abs(i) == IF i < 0 THEN -i ELSE i

RECURSIVE GCD(_, _)
GCD(a, b) == IF b = 0 THEN a ELSE GCD(b, a % b)

NaN == [k |-> "nan", n |-> 0, d |-> 1, s |-> ""]
Str(t) == [k |-> "str", n |-> 0, d |-> 1, s |-> t]
Frac(a, b) ==
    LET sg == IF b < 0 THEN -1 ELSE 1
        g  == GCD(Abs(a), Abs(b))
    IN  [k |-> "num", n |-> (sg * a) \div g, d |-> (sg * b) \div g, s |-> ""]
Num(i) == Frac(i, 1)

IsNum(c) == c.k = "num"
IsNaN(c) == c.k = "nan"
IsStr(c) == c.k = "str"

\* Arithmetic of numpy floats, NaN propagating.
Add(x, y) == IF IsNum(x) /\ IsNum(y) THEN Frac(x.n * y.d + y.n * x.d, x.d * y.d) ELSE NaN
Sub(x, y) == IF IsNum(x) /\ IsNum(y) THEN Frac(x.n * y.d - y.n * x.d, x.d * y.d) ELSE NaN
Mul(x, y) == IF IsNum(x) /\ IsNum(y) THEN Frac(x.n * y.n, x.d * y.d) ELSE NaN
Div(x, y) == IF IsNum(x) /\ IsNum(y) /\ y.n # 0 THEN Frac(x.n * y.d, x.d * y.n) ELSE NaN
\* Comparisons with NaN are False.
Less(x, y) == IsNum(x) /\ IsNum(y) /\ x.n * y.d < y.n * x.d
Leq(x, y) == IsNum(x) /\ IsNum(y) /\ x.n * y.d <= y.n * x.d

-----------------------------------------------------------------------------
(* Strings.                                                                *)

RECURSIVE LStrip(_)
LStrip(t) == IF Len(t) > 0 /\ SubSeq(t, 1, 1) = " " THEN LStrip(SubSeq(t, 2, Len(t))) ELSE t

RECURSIVE RStrip(_)
RStrip(t) == IF Len(t) > 0 /\ SubSeq(t, Len(t), Len(t)) = " "
             THEN RStrip(SubSeq(t, 1, Len(t) - 1)) ELSE t

\* str.strip()
Strip(t) == RStrip(LStrip(t))

\* str.contains(pat) for a pattern without regex metacharacters
Contains(t, pat) ==
    \E i \in 1..(Len(t) - Len(pat) + 1) : SubSeq(t, i, i + Len(pat) - 1) = pat

UpperCase ==
    <<"A", "B", "C", "D", "E", "F", "G", "H", "I", "J", "K", "L", "M",
      "N", "O", "P", "Q", "R", "S", "T", "U", "V", "W", "X", "Y", "Z">>
LowerCase ==
    <<"a", "b", "c", "d", "e", "f", "g", "h", "i", "j", "k", "l", "m",
      "n", "o", "p", "q", "r", "s", "t", "u", "v", "w", "x", "y", "z">>
UpperSet == {UpperCase[i] : i \in 1..Len(UpperCase)}
LowerChar(c) ==
    IF c \in UpperSet
    THEN LowerCase[CHOOSE i \in 1..Len(UpperCase) : UpperCase[i] = c]
    ELSE c

RECURSIVE Lower(_)
\* str.lower()
Lower(t) == IF Len(t) = 0 THEN t ELSE LowerChar(SubSeq(t, 1, 1)) \o Lower(SubSeq(t, 2, Len(t)))

\* os.path.splitext(name)[-1]: from the last dot on, "" without a dot
\* (or when the only dot leads the name).
SplitExt(name) ==
    LET dots == {i \in 2..Len(name) : SubSeq(name, i, i) = "."}
    IN  IF dots = {} THEN ""
        ELSE LET p == CHOOSE i \in dots : \A j \in dots : j <= i
             IN  SubSeq(name, p, Len(name))

Digits == "0123456789"
RECURSIVE IntToStr(_)
IntToStr(i) == IF i < 10 THEN SubSeq(Digits, i + 1, i + 1)
               ELSE IntToStr(i \div 10) \o SubSeq(Digits, (i % 10) + 1, (i % 10) + 1)


-----------------------------------------------------------------------------
(* Tables: ordered column labels, a dtype per column, rows of cells.       *)
(* A label is a cell: a text from the codec, or whatever row 0 held when   *)
(* the row was promoted to the header.                                     *)

Table(cols, dts, rws) == [kind |-> "table", columns |-> cols, dtypes |-> dts, rows |-> rws]
\* The table of a stage the run did not reach.
NoTable == [kind |-> "none", columns |-> <<>>, dtypes |-> <<>>, rows |-> <<>>]
\* pd.DataFrame()
EmptyFrame == Table(<<>>, <<>>, <<>>)

IsTable(t) == t.kind = "table"
NCols(t) == Len(t.columns)
NRows(t) == Len(t.rows)
Column(t, j) == [i \in 1..NRows(t) |-> t.rows[i][j]]
\* DataFrame.empty: an axis of length 0
IsEmpty(t) == NRows(t) = 0 \/ NCols(t) = 0

Range(f) == {f[i] : i \in DOMAIN f}
IsUnique(seq) == \A i, j \in DOMAIN seq : seq[i] = seq[j] => i = j
Pos(seq, x) == CHOOSE j \in DOMAIN seq : seq[j] = x

-----------------------------------------------------------------------------
(* The codecs, lines 37-38.  A file is its name, its header cells as       *)
(* written ("" for a blank cell) and its data rows.                        *)

\* The reader's column names: a blank header cell becomes "Unnamed: <j>",
\* a repeated name gets ".<count>" appended.
HeaderNames(header) ==
    [j \in 1..Len(header) |->
        IF header[j] = "" THEN "Unnamed: " \o IntToStr(j - 1)
        ELSE LET earlier == Cardinality({i \in 1..(j - 1) : header[i] = header[j]})
             IN  IF earlier = 0 THEN header[j]
                 ELSE header[j] \o "." \o IntToStr(earlier)]

\* A column is numeric when it has rows and no text in them.
InferDtypes(rws, n) ==
    [j \in 1..n |->
        IF rws # <<>> /\ \A i \in 1..Len(rws) : ~IsStr(rws[i][j]) THEN "num" ELSE "obj"]

\* pd.read_csv: every cell of a column that is not numeric stays the text
\* that was in the file.
read_csv(file) ==
    LET n   == Len(file.header)
        dts == InferDtypes(file.rows, n)
        cell(c, j) == IF dts[j] = "obj" /\ IsNum(c) THEN Str(IntToStr(c.n)) ELSE c
    IN  Table([j \in 1..n |-> Str(HeaderNames(file.header)[j])], dts,
              [i \in 1..Len(file.rows) |-> [j \in 1..n |-> cell(file.rows[i][j], j)]])

\* pd.read_excel: cells keep the type the sheet gave them.
read_excel(file) ==
    LET n == Len(file.header)
    IN  Table([j \in 1..n |-> Str(HeaderNames(file.header)[j])],
              InferDtypes(file.rows, n), file.rows)

\* Line 37
file_ext(file) == Lower(SplitExt(file.name))

\* Line 38
CodecOf(file) == IF file_ext(file) = ".csv" THEN "read_csv" ELSE "read_excel"
Decode(file) == IF CodecOf(file) = "read_csv" THEN read_csv(file) ELSE read_excel(file)

\* Line 39: df.columns.str.strip()
StripColumns(df) ==
    [df EXCEPT !.columns = [j \in 1..NCols(df) |-> Str(Strip(df.columns[j].s))]]

\* Line 42: all(df.columns.str.contains("Unnamed"))
MissingHeaders(df) == \A j \in 1..NCols(df) : Contains(df.columns[j].s, "Unnamed")

\* Lines 43-44: row 0 becomes the header and leaves the body.
PromoteHeader(df) == [df EXCEPT !.columns = df.rows[1], !.rows = Tail(df.rows)]

\* Lines 37-44 for one file: the table, whether row 0 was promoted, and the
\* exception raised (df.iloc[0] of a table without rows).
IngestFile(file) ==
    LET df == StripColumns(Decode(file))
    IN  IF ~MissingHeaders(df) THEN [df |-> df, promoted |-> FALSE, error |-> ""]
        ELSE IF NRows(df) = 0 THEN [df |-> NoTable, promoted |-> FALSE, error |-> "IndexError"]
        ELSE [df |-> PromoteHeader(df), promoted |-> TRUE, error |-> ""]

\* pd.concat([a, b], ignore_index=True): rows of a, then rows of b, over the
\* union of the labels; a cell a table has no column for is missing.
\* Reindexing needs unique labels unless the two headers are equal.
ConcatOk(a, b) == a.columns = b.columns \/ (IsUnique(a.columns) /\ IsUnique(b.columns))

ConcatDtype(a, b, label) ==
    LET ina == label \in Range(a.columns)
        inb == label \in Range(b.columns)
        da  == a.dtypes[Pos(a.columns, label)]
        db  == b.dtypes[Pos(b.columns, label)]
    IN  IF ~inb THEN da
        ELSE IF ~ina THEN db
        ELSE IF NRows(b) = 0 THEN da
        ELSE IF da = "num" /\ db = "num" THEN "num" ELSE "obj"

Concat(a, b) ==
    IF a.columns = b.columns
    THEN Table(a.columns,
               [j \in 1..NCols(a) |->
                   IF NRows(b) = 0 THEN a.dtypes[j]
                   ELSE IF a.dtypes[j] = "num" /\ b.dtypes[j] = "num" THEN "num" ELSE "obj"],
               a.rows \o b.rows)
    ELSE LET cols == a.columns \o SelectSeq(b.columns, LAMBDA l : l \notin Range(a.columns))
             n    == Len(cols)
             fromA(r) == [j \in 1..n |-> IF j <= NCols(a) THEN r[j] ELSE NaN]
             fromB(r) == [j \in 1..n |->
                            IF cols[j] \in Range(b.columns)
                            THEN r[Pos(b.columns, cols[j])] ELSE NaN]
         IN  Table(cols, [j \in 1..n |-> ConcatDtype(a, b, cols[j])],
                   [i \in 1..NRows(a) |-> fromA(a.rows[i])]
                   \o [i \in 1..NRows(b) |-> fromB(b.rows[i])])

\* The two tables of line 47 in the other order.
MergeOne_new_first(acc, df) == IF ~IsEmpty(acc) THEN Concat(df, acc) ELSE df

\* Line 47
MergeOne(acc, df) == IF ~IsEmpty(acc) THEN Concat(acc, df) ELSE df

\* Lines 35-47: the loop over the uploaded files.  The state of the loop is
\* the table merged so far, the log of the files decoded and the exception
\* that ended it.
RECURSIVE MergeLoop(_, _)
MergeLoop(files, st) ==
    IF files = <<>> \/ st.error # "" THEN st
    ELSE LET file == Head(files)
             r    == IngestFile(file)
             log  == Append(st.log, [name |-> file.name, codec |-> CodecOf(file),
                                     promoted |-> r.promoted])
         IN  IF r.error # ""
             THEN [df |-> NoTable, log |-> log, error |-> r.error]
             ELSE IF ~IsEmpty(st.df) /\ ~ConcatOk(st.df, r.df)
             THEN [df |-> NoTable, log |-> log, error |-> "InvalidIndexError"]
             ELSE MergeLoop(Tail(files), [df |-> MergeOne(st.df, r.df), log |-> log, error |-> ""])

MergeFiles(files) == MergeLoop(files, [df |-> EmptyFrame, log |-> <<>>, error |-> ""])

-----------------------------------------------------------------------------
(* Cleaning, lines 54-61.                                                  *)

RECURSIVE Pick(_, _, _)
\* The subsequence of seq at the indices of keep, from index i on.
Pick(seq, keep, i) ==
    IF i > Len(seq) THEN <<>>
    ELSE (IF i \in keep THEN <<seq[i]>> ELSE <<>>) \o Pick(seq, keep, i + 1)

\* drop_duplicates(keep='last'): the last occurrence stays instead.
drop_duplicates_keep_last(df) ==
    LET last == {i \in 1..NRows(df) : \A j \in (i + 1)..NRows(df) : df.rows[j] # df.rows[i]}
    IN  [df EXCEPT !.rows = Pick(df.rows, last, 1)]

\* Line 55: DataFrame.drop_duplicates(): a row equal on all columns to an
\* earlier row goes, the first occurrence stays where it was.
drop_duplicates(df) ==
    LET first == {i \in 1..NRows(df) : \A j \in 1..(i - 1) : df.rows[j] # df.rows[i]}
    IN  [df EXCEPT !.rows = Pick(df.rows, first, 1)]

RECURSIVE SumCells(_)
SumCells(cells) == IF cells = <<>> THEN Num(0) ELSE Add(Head(cells), SumCells(Tail(cells)))

\* The values of a column that are not missing, in row order.
Present(col) == SelectSeq(col, IsNum)

\* mean(skipna=False): a missing value makes the mean missing.
mean_with_missing(col) == Div(SumCells(col), Num(Len(col)))

\* DataFrame.mean(): of the values present; NaN when there is none.
mean(col) == Div(SumCells(Present(col)), Num(Len(Present(col))))

\* Line 59 and line 69: select_dtypes(include=['number'])
NumericIdx(df) == {j \in 1..NCols(df) : df.dtypes[j] = "num"}
NumericCols(df) == Pick(df.columns, NumericIdx(df), 1)

\* Line 60: fillna of the numeric columns with their means.
fillna_mean(df) ==
    LET means == [j \in NumericIdx(df) |-> mean(Column(df, j))]
    IN  [df EXCEPT !.rows =
            [i \in 1..NRows(df) |->
                [j \in 1..NCols(df) |->
                    IF j \in NumericIdx(df) /\ IsNaN(df.rows[i][j])
                    THEN means[j] ELSE df.rows[i][j]]]]

\* Lines 54-61: the two buttons.
Clean(df, btn) ==
    IF btn = "dedupe" THEN drop_duplicates(df)
    ELSE IF btn = "fill" THEN fillna_mean(df)
    ELSE df

-----------------------------------------------------------------------------
(* Projection and scaling, lines 63-75.                                    *)

\* Line 65: merged_df[selected_columns], over unique labels.
SelectColumns(df, sel) ==
    Table(sel, [k \in 1..Len(sel) |-> df.dtypes[Pos(df.columns, sel[k])]],
          [i \in 1..NRows(df) |-> [k \in 1..Len(sel) |-> df.rows[i][Pos(df.columns, sel[k])]]])

MinOf(cells) == CHOOSE x \in Range(cells) : \A y \in Range(cells) : Leq(x, y)
MaxOf(cells) == CHOOSE x \in Range(cells) : \A y \in Range(cells) : Leq(y, x)

\* Scaling by the maximum alone, X / data_max, instead of by the range.
MinMaxColumn_by_max(col) ==
    IF Present(col) = <<>> THEN [i \in 1..Len(col) |-> NaN]
    ELSE [i \in 1..Len(col) |-> Div(col[i], MaxOf(Present(col)))]

\* MinMaxScaler.fit_transform on one column: X * scale_ + min_, with
\* scale_ = 1 / (data_max - data_min), a zero range counting as 1, and
\* min_ = 0 - data_min * scale_.  Missing values are left out of the fit
\* and stay missing.
MinMaxColumn(col) ==
    IF Present(col) = <<>> THEN [i \in 1..Len(col) |-> NaN]
    ELSE LET data_min   == MinOf(Present(col))
             data_max   == MaxOf(Present(col))
             data_range == Sub(data_max, data_min)
             scale_     == Div(Num(1), IF data_range = Num(0) THEN Num(1) ELSE data_range)
             min_       == Sub(Num(0), Mul(data_min, scale_))
         IN  [i \in 1..Len(col) |-> Add(Mul(col[i], scale_), min_)]

\* Line 72
MinMaxScale(df) ==
    LET scaled == [j \in NumericIdx(df) |-> MinMaxColumn(Column(df, j))]
    IN  [df EXCEPT !.rows =
            [i \in 1..NRows(df) |->
                [j \in 1..NCols(df) |->
                    IF j \in NumericIdx(df) THEN scaled[j][i] ELSE df.rows[i][j]]]]

\* sklearn refuses an array without rows or without columns.
ScalerRejects(df) == NRows(df) = 0 \/ NumericIdx(df) = {}

-----------------------------------------------------------------------------
(* Outlier detection, lines 77-84.                                         *)

\* The p-th smallest (p from 0) of a non-empty sequence of numbers.
Sorted(vals, p) ==
    LET i == CHOOSE i \in 1..Len(vals) :
                 /\ Cardinality({j \in 1..Len(vals) : Less(vals[j], vals[i])}) <= p
                 /\ p < Cardinality({j \in 1..Len(vals) : Leq(vals[j], vals[i])})
    IN  vals[i]

\* DataFrame.quantile(qn/qd) of one column: linear interpolation between
\* the two order statistics around position (n - 1) * q; NaN when the
\* column has no value.
quantile(col, qn, qd) ==
    LET vals == Present(col)
        h    == (Len(vals) - 1) * qn
        lo   == h \div qd
        rem  == h % qd
    IN  IF vals = <<>> THEN NaN
        ELSE IF rem = 0 THEN Sorted(vals, lo)
        ELSE Add(Sorted(vals, lo),
                 Mul(Frac(rem, qd), Sub(Sorted(vals, lo + 1), Sorted(vals, lo))))

\* Lines 79-82: the boolean mask over the numeric columns.
OutlierColumn(col) ==
    LET Q1  == quantile(col, 1, 4)
        Q3  == quantile(col, 3, 4)
        IQR == Sub(Q3, Q1)
    IN  [i \in 1..Len(col) |->
            \/ Less(col[i], Sub(Q1, Mul(Frac(3, 2), IQR)))
            \/ Less(Add(Q3, Mul(Frac(3, 2), IQR)), col[i])]

OutlierMask(df) ==
    LET flagged == [j \in NumericIdx(df) |-> OutlierColumn(Column(df, j))]
    IN  [i \in 1..NRows(df) |->
            [j \in 1..NCols(df) |-> j \in NumericIdx(df) /\ flagged[j][i]]]

\* Line 82: merged_df[mask] with a boolean DataFrame as the key is
\* DataFrame.where(mask): same rows and columns, a cell kept where the mask
\* is True and missing elsewhere (columns the mask lacks count as False).
DetectOutliers(df) ==
    LET mask == OutlierMask(df)
    IN  [df EXCEPT !.rows =
            [i \in 1..NRows(df) |->
                [j \in 1..NCols(df) |-> IF mask[i][j] THEN df.rows[i][j] ELSE NaN]]]

-----------------------------------------------------------------------------
(* File conversion, lines 104-130.                                         *)

Formats == {"CSV", "Excel", "JSON", "Parquet"}

\* The bytes a format's writer produces for a table.
Encode(format, df) == [format |-> format, table |-> df]

Download(label, data, name, mime) ==
    [label |-> label, data |-> data, file_name |-> name, mime |-> mime]

\* Lines 107-130: the download buttons offered and the exception raised.
\* The Parquet branch offers its own download and sets neither a buffer nor
\* mime_type, so line 130 raises NameError when it reads mime_type.
Convert(format, df) ==
    IF format = "CSV"
    THEN [downloads |-> <<Download("Download File", Encode("CSV", df),
                                   "processed_data" \o ".csv", "text/csv")>>,
          error |-> ""]
    ELSE IF format = "Excel"
    THEN [downloads |-> <<Download("Download File", Encode("Excel", df),
                                   "processed_data" \o ".xlsx",
                                   "application/vnd.openxmlformats-officedocument.spreadsheetml.sheet")>>,
          error |-> ""]
    ELSE IF format = "JSON"
    THEN [downloads |-> <<Download("Download File", Encode("JSON", df),
                                   "processed_data" \o ".json", "application/json")>>,
          error |-> ""]
    ELSE [downloads |-> <<Download("Download as Parquet", Encode("Parquet", df),
                                   "data.parquet", "application/octet-stream")>>,
          error |-> "NameError"]

-----------------------------------------------------------------------------
(* One run of the script, lines 34-132.                                    *)

\* What a run that renders nothing leaves on the page.
Blank ==
    [ingest_log |-> <<>>, merged |-> NoTable, cleaned |-> NoTable,
     options |-> <<>>, selected_columns |-> <<>>, merged_df |-> NoTable,
     numeric_cols |-> <<>>, outliers |-> NoTable, downloads |-> <<>>, error |-> ""]

\* Label-based selection is modelled for unique labels that are values.
\* A merged table with a repeated or a missing label is shown in the
\* preview; the later stages of that run are not represented.
LabelsUsable(df) == IsUnique(df.columns) /\ \A j \in 1..NCols(df) : ~IsNaN(df.columns[j])

\* Line 64: the multiselect keeps the user's selection while its options
\* are the same and starts from its default, every column, when they change.
Selection(opts, prev_options, prev_selection) ==
    IF opts = prev_options THEN prev_selection ELSE opts

\* Lines 77-130, from the scaled table on.
RunFromScaled(base, scaled, btn, detect, format) ==
    LET r2  == [base EXCEPT !.merged_df = scaled,
                            !.outliers = IF detect THEN DetectOutliers(scaled) ELSE NoTable]
        out == Convert(format, scaled)
    IN  IF btn = "convert"
        THEN [r2 EXCEPT !.downloads = out.downloads, !.error = out.error]
        ELSE r2

\* Lines 67-130, from the projected table on.
RunFromSelected(base, selected, btn, scaling, detect, format) ==
    LET r1 == [base EXCEPT !.merged_df = selected, !.numeric_cols = NumericCols(selected)]
    IN  IF scaling = "MinMax" /\ ScalerRejects(selected)
        THEN [r1 EXCEPT !.error = "ValueError"]
        ELSE CHOOSE r \in {RunFromScaled(r1, scaled, btn, detect, format) :
                           scaled \in {IF scaling = "MinMax" THEN MinMaxScale(selected)
                                       ELSE selected}} : TRUE

\* Lines 49-130, from the merged table on.
RunFromMerged(m, btn, prev_options, prev_selection, scaling, detect, format) ==
    LET kept == [Blank EXCEPT !.options = prev_options, !.selected_columns = prev_selection,
                              !.ingest_log = m.log]
        sel  == Selection(m.df.columns, prev_options, prev_selection)
    IN  IF m.error # "" THEN [kept EXCEPT !.error = m.error]
        ELSE IF ~LabelsUsable(m.df) THEN [kept EXCEPT !.merged = m.df]
        ELSE CHOOSE r \in
                 {RunFromSelected([kept EXCEPT !.merged = m.df, !.cleaned = df,
                                               !.options = m.df.columns,
                                               !.selected_columns = sel],
                                  SelectColumns(df, sel), btn, scaling, detect, format) :
                  df \in {Clean(m.df, btn)}} : TRUE

\* Lines 34-132.  (Each stage's table is bound once, as a value, before the
\* next stage reads it.)
RunScript(files, btn, prev_options, prev_selection, scaling, detect, format) ==
    IF files = <<>> THEN Blank
    ELSE CHOOSE r \in {RunFromMerged(m, btn, prev_options, prev_selection, scaling,
                                     detect, format) :
                       m \in {MergeFiles(files)}} : TRUE

-----------------------------------------------------------------------------
(* The session.                                                            *)

\* An uploader without a type list takes every file.
AllowedType_any(name) == TRUE

\* Line 32: the uploader takes the extensions of its type list, compared
\* without regard to case.
AllowedType(name) == Lower(SplitExt(name)) \in {".csv", ".xlsx"}

\* The user's interaction has set the widgets; the script runs.
Rerun(files, btn, sel, scaling, detect, format) ==
    \E r \in {RunScript(files, btn, options, sel, scaling, detect, format)} :
        /\ uploaded_files' = files
        /\ clicked' = btn
        /\ ingest_log' = r.ingest_log
        /\ merged' = r.merged
        /\ cleaned' = r.cleaned
        /\ options' = r.options
        /\ selected_columns' = r.selected_columns
        /\ merged_df' = r.merged_df
        /\ numeric_cols' = r.numeric_cols
        /\ outliers' = r.outliers
        /\ downloads' = r.downloads
        /\ error' = r.error
        \* Widgets a run does not render lose their value.
        /\ scaling_method' = IF files = <<>> THEN "None" ELSE scaling
        /\ detect_outliers' = IF files = <<>> THEN FALSE ELSE detect
        /\ conversion_type' = IF files = <<>> THEN "CSV" ELSE format

\* The last run rendered the widgets of lines 54-68.
CleaningShown == IsTable(cleaned)
\* The last run rendered the widgets of lines 78-106.
ExportShown == IsTable(cleaned) /\ error # "ValueError"

Init ==
    /\ uploaded_files = <<>>
    /\ rejected = ""
    /\ clicked = "none"
    /\ selected_columns = <<>>
    /\ options = <<>>
    /\ scaling_method = "None"
    /\ detect_outliers = FALSE
    /\ conversion_type = "CSV"
    /\ ingest_log = <<>>
    /\ merged = NoTable
    /\ cleaned = NoTable
    /\ merged_df = NoTable
    /\ numeric_cols = <<>>
    /\ outliers = NoTable
    /\ downloads = <<>>
    /\ error = ""

\* Line 32: one more file is dropped on the uploader.
AddFile(f) ==
    /\ Len(uploaded_files) < MaxFiles
    /\ AllowedType(f.name)
    /\ UNCHANGED rejected
    /\ Rerun(Append(uploaded_files, f), "none", selected_columns, scaling_method,
             detect_outliers, conversion_type)

\* Line 32: the uploader refuses a file of another type; nothing runs.
RefuseFile(f) ==
    /\ ~AllowedType(f.name)
    /\ rejected' = f.name
    /\ UNCHANGED <<uploaded_files, clicked, selected_columns, options, scaling_method,
                   detect_outliers, conversion_type, ingest_log, merged, cleaned,
                   merged_df, numeric_cols, outliers, downloads, error>>

\* Line 32: the user removes the i-th file from the uploader.
RemoveFile(i) ==
    /\ i \in 1..Len(uploaded_files)
    /\ UNCHANGED rejected
    /\ Rerun(SubSeq(uploaded_files, 1, i - 1) \o SubSeq(uploaded_files, i + 1, Len(uploaded_files)),
             "none", selected_columns, scaling_method, detect_outliers, conversion_type)

\* Line 54
ClickRemoveDuplicates ==
    /\ CleaningShown
    /\ UNCHANGED rejected
    /\ Rerun(uploaded_files, "dedupe", selected_columns, scaling_method,
             detect_outliers, conversion_type)

\* Line 58
ClickFillMissing ==
    /\ CleaningShown
    /\ UNCHANGED rejected
    /\ Rerun(uploaded_files, "fill", selected_columns, scaling_method,
             detect_outliers, conversion_type)

\* The selections a multiselect over opts can hold: its options, each at
\* most once, in the order the user picked them.
Selections(opts) ==
    {s \in UNION {[1..k -> Range(opts)] : k \in 0..Len(opts)} : IsUnique(s)}

\* Line 64
ChooseColumns(sel) ==
    /\ CleaningShown
    /\ sel # selected_columns
    /\ UNCHANGED rejected
    /\ Rerun(uploaded_files, "none", sel, scaling_method, detect_outliers, conversion_type)

\* Line 68.  Standardization divides by a square root, which the exact
\* cells cannot hold: the sessions explored choose between the other two.
ScalingMethods == {"None", "MinMax"}

ChooseScaling(method) ==
    /\ CleaningShown
    /\ method # scaling_method
    /\ UNCHANGED rejected
    /\ Rerun(uploaded_files, "none", selected_columns, method, detect_outliers, conversion_type)

\* Line 78
ToggleDetectOutliers ==
    /\ ExportShown
    /\ UNCHANGED rejected
    /\ Rerun(uploaded_files, "none", selected_columns, scaling_method,
             ~detect_outliers, conversion_type)

\* Line 105
ChooseConversion(format) ==
    /\ ExportShown
    /\ format # conversion_type
    /\ UNCHANGED rejected
    /\ Rerun(uploaded_files, "none", selected_columns, scaling_method,
             detect_outliers, format)

\* Line 106
ClickConvert ==
    /\ ExportShown
    /\ UNCHANGED rejected
    /\ Rerun(uploaded_files, "convert", selected_columns, scaling_method,
             detect_outliers, conversion_type)

-----------------------------------------------------------------------------
(* The files the explored sessions upload.                                 *)

File(name, header, rws) == [name |-> name, header |-> header, rows |-> rws]

\* The files at hand in a whole session: a sheet of two columns with a
\* repeated row and a missing number, a second sheet of the same columns,
\* and a text file.
SampleFiles ==
    { File("sales.csv", <<"a", "b">>,
           << <<Num(1), Str("x")>>, <<NaN, Str("y")>>, <<Num(1), Str("x")>>, <<Num(5), Str("y")>> >>),
      File("more.XLSX", <<"a", "b">>, << <<Num(2), Str("x")>> >>),
      File("notes.txt", <<"a", "b">>, << <<Num(7), Str("z")>> >>) }

\* The rows of the data files.
SampleRows ==
    { <<Num(1), Str("x")>>, <<Num(2), Str("x")>>, <<Num(5), NaN>>, <<NaN, Str("y")>> }

\* Every file of two columns "a", "b" with at most MaxRows of the rows above.
DataFiles ==
    {File("data.csv", <<"a", "b">>, rs) : rs \in UNION {[1..k -> SampleRows] : k \in 0..MaxRows}}

TwoRows == << <<Num(1), Str("x")>>, <<Num(2), Str("x")>> >>
LabelRows == << <<Str("a"), Str("b")>>, <<Num(1), Str("x")>> >>

\* Files that differ in their headers: plain, padded with blanks, equal
\* after trimming, blank (with and without a label row under them), genuine
\* names that hold the word "Unnamed", and blank in part.
HeaderFiles ==
    { File("a.csv", <<"a", "b">>, TwoRows),
      File("b.csv", <<"a", "b">>, <<>>),
      File("c.csv", <<" a", "b ">>, << <<Num(5), Str("y")>> >>),
      File("d.csv", <<" a", "a">>, TwoRows),
      File("e.csv", <<"", "">>, LabelRows),
      File("f.xlsx", <<"", "">>, LabelRows),
      File("g.csv", <<"", "">>, <<>>),
      File("h.csv", <<"Unnamed x", "Unnamed y">>, TwoRows),
      File("i.xlsx", <<"", "">>, << <<Str("a"), NaN>>, <<Num(1), Str("x")>> >>),
      File("j.csv", <<"a", "">>, TwoRows) }

\* What one use of the uploader can hand over: one data file, or up to
\* MaxFiles of the header files in any order.
Batches ==
    {<<f>> : f \in DataFiles} \cup UNION {[1..k -> HeaderFiles] : k \in 1..MaxFiles}

\* Line 32 with accept_multiple_files: the first upload of a session.
UploadBatch(files) ==
    /\ uploaded_files = <<>>
    /\ \A i \in 1..Len(files) : AllowedType(files[i].name)
    /\ UNCHANGED rejected
    /\ Rerun(files, "none", selected_columns, scaling_method, detect_outliers,
             conversion_type)

-----------------------------------------------------------------------------
(* Specifications.                                                         *)

\* A whole session over the sample files.
Next ==
    \/ \E f \in SampleFiles : AddFile(f)
    \/ \E f \in SampleFiles : RefuseFile(f)
    \/ \E i \in 1..MaxFiles : RemoveFile(i)
    \/ ClickRemoveDuplicates
    \/ ClickFillMissing
    \/ \E sel \in Selections(options) : ChooseColumns(sel)
    \/ \E method \in ScalingMethods : ChooseScaling(method)
    \/ ToggleDetectOutliers
    \/ \E format \in Formats : ChooseConversion(format)
    \/ ClickConvert

Spec == Init /\ [][Next]_vars

\* One upload of any batch, then the cleaning, scaling and outlier widgets.
NextData ==
    \/ \E files \in Batches : UploadBatch(files)
    \/ ClickRemoveDuplicates
    \/ ClickFillMissing
    \/ \E method \in ScalingMethods : ChooseScaling(method)
    \/ ToggleDetectOutliers

SpecData == Init /\ [][NextData]_vars

-----------------------------------------------------------------------------
(* Claims.                                                                 *)

CountNaN(cells) == Cardinality({i \in DOMAIN cells : IsNaN(cells[i])})
FirstIndex(seq, x) == CHOOSE i \in DOMAIN seq : seq[i] = x /\ \A j \in 1..(i - 1) : seq[j] # x

\* A value outside [Q1 - 1.5 IQR, Q3 + 1.5 IQR] of its column.
OutsideFence(col, x) ==
    LET q1  == quantile(col, 1, 4)
        q3  == quantile(col, 3, 4)
        iqr == Sub(q3, q1)
    IN  \/ Less(x, Sub(q1, Mul(Frac(3, 2), iqr)))
        \/ Less(Add(q3, Mul(Frac(3, 2), iqr)), x)

FlaggedRows(df) ==
    {i \in 1..NRows(df) : \E j \in NumericIdx(df) : OutsideFence(Column(df, j), df.rows[i][j])}

\* C1: the output of Detect Outliers is the sub-table of exactly the rows
\* that have a numeric value outside its column's fence, in row order; no
\* row whose numeric values all lie within the fences is in it.
C1_OutliersAreTheFlaggedRows ==
    (detect_outliers /\ IsTable(outliers)) =>
        /\ outliers.columns = merged_df.columns
        /\ outliers.rows = Pick(merged_df.rows, FlaggedRows(merged_df), 1)

\* C2: a cleaning stage the user triggered stays applied: when Convert &
\* Download is clicked after Remove Duplicates or Fill Missing Values, the
\* table exported is the table the cleaning run displayed.
C2_CleaningStaysApplied ==
    [][(clicked \in {"dedupe", "fill"} /\ clicked' = "convert") => merged_df' = merged_df]_vars

\* The format table of the export contract.
MimeOf(format) ==
    CASE format = "CSV" -> "text/csv"
      [] format = "Excel" -> "application/vnd.openxmlformats-officedocument.spreadsheetml.sheet"
      [] format = "JSON" -> "application/json"
      [] format = "Parquet" -> "application/octet-stream"

ExtensionOf(format) ==
    CASE format = "CSV" -> ".csv"
      [] format = "Excel" -> ".xlsx"
      [] format = "JSON" -> ".json"
      [] format = "Parquet" -> ".parquet"

EndsWith(t, suffix) ==
    Len(t) >= Len(suffix) /\ SubSeq(t, Len(t) - Len(suffix) + 1, Len(t)) = suffix

\* C3: for each of the four formats Convert & Download completes without
\* error and offers exactly one download: the bytes of the current table in
\* that format, the format's MIME type, a file name with its extension.
C3_ConvertOffersOneDownload ==
    clicked = "convert" =>
        /\ error = ""
        /\ Len(downloads) = 1
        /\ downloads[1].data = Encode(conversion_type, merged_df)
        /\ downloads[1].mime = MimeOf(conversion_type)
        /\ EndsWith(downloads[1].file_name, ExtensionOf(conversion_type))

\* C4: Remove Duplicates leaves no row equal to an earlier one, keeps every
\* distinct row once, in the order of the first occurrences, changes no
\* column, and applied again changes nothing.
C4_DeduplicationKeepsFirst ==
    (clicked = "dedupe" /\ IsTable(cleaned)) =>
        /\ IsUnique(cleaned.rows)
        /\ Range(cleaned.rows) = Range(merged.rows)
        /\ \A i, j \in 1..NRows(cleaned) :
               i < j => FirstIndex(merged.rows, cleaned.rows[i])
                        < FirstIndex(merged.rows, cleaned.rows[j])
        /\ cleaned.columns = merged.columns /\ cleaned.dtypes = merged.dtypes
        /\ drop_duplicates(cleaned) = cleaned

C4_Witness ==
    /\ clicked = "dedupe" /\ IsTable(cleaned)
    /\ NRows(cleaned) >= 2
    /\ \E i, j \in 1..NRows(merged) : i + 1 < j /\ merged.rows[i] = merged.rows[j]

Ingested(i) == IngestFile(uploaded_files[i])

RECURSIVE RowsOfFiles(_)
RowsOfFiles(i) == IF i = 0 THEN <<>> ELSE RowsOfFiles(i - 1) \o Ingested(i).df.rows

IdenticalSchemas ==
    /\ uploaded_files # <<>>
    /\ \A i \in 1..Len(uploaded_files) :
           Ingested(i).error = "" /\ Ingested(i).df.columns = Ingested(1).df.columns

HasExtension(name, ext) ==
    Len(name) > Len(ext) /\ Lower(SubSeq(name, Len(name) - Len(ext) + 1, Len(name))) = ext

\* C7: a file whose extension is neither .csv nor .xlsx is refused: it is
\* never among the uploaded files, never handed to a codec and contributes
\* no row; a .csv file goes to the CSV reader and a .xlsx file to the
\* spreadsheet reader.
C7_OtherExtensionsAreRefused ==
    /\ \A i \in 1..Len(uploaded_files) :
           HasExtension(uploaded_files[i].name, ".csv")
           \/ HasExtension(uploaded_files[i].name, ".xlsx")
    /\ \A i \in 1..Len(ingest_log) :
           \/ HasExtension(ingest_log[i].name, ".csv") /\ ingest_log[i].codec = "read_csv"
           \/ HasExtension(ingest_log[i].name, ".xlsx") /\ ingest_log[i].codec = "read_excel"
    /\ rejected # "" =>
           /\ ~HasExtension(rejected, ".csv") /\ ~HasExtension(rejected, ".xlsx")
           /\ \A i \in 1..Len(uploaded_files) : uploaded_files[i].name # rejected

C7_Witness ==
    /\ rejected = "notes.txt"
    /\ Len(ingest_log) = 2
    /\ IsTable(merged) /\ NRows(merged) = 5

\* The table line 72 scales.
Projected == SelectColumns(cleaned, selected_columns)

IsColumnMin(col, x) == IsNum(x) /\ \A k \in DOMAIN col : IsNum(col[k]) => Leq(x, col[k])
IsColumnMax(col, x) == IsNum(x) /\ \A k \in DOMAIN col : IsNum(col[k]) => Leq(col[k], x)
NonZeroRange(col) == \E i, k \in DOMAIN col : Less(col[i], col[k])

IsPlaceholder(name) ==
    /\ Len(name) > 9
    /\ SubSeq(name, 1, 9) = "Unnamed: "
    /\ \A i \in 10..Len(name) : \E d \in 1..10 : SubSeq(name, i, i) = SubSeq(Digits, d, d)

AllPlaceholders(file) ==
    \A j \in 1..Len(file.header) : IsPlaceholder(Strip(HeaderNames(file.header)[j]))

\* C9: row 0 of a file is promoted to the header if and only if every
\* trimmed column name is a placeholder: a file with a genuine header, also
\* one whose headers hold the word "Unnamed", keeps its headers and rows.
C9_PromotionOnlyForPlaceholders ==
    \A i \in 1..Len(ingest_log) :
        /\ ingest_log[i].promoted => AllPlaceholders(uploaded_files[i])
        /\ (AllPlaceholders(uploaded_files[i]) /\ uploaded_files[i].rows # <<>>)
               => ingest_log[i].promoted

\* Unique names that are neither missing nor empty, and a cell for every
\* column in every row.
WellFormed(df) ==
    /\ IsUnique(df.columns)
    /\ \A j \in 1..NCols(df) : ~IsNaN(df.columns[j]) /\ df.columns[j] # Str("")
    /\ \A i \in 1..NRows(df) : Len(df.rows[i]) = NCols(df)

\* C10: in every state the column names of the table (merged, cleaned,
\* projected and scaled) are unique and are values that are not missing and
\* not empty, and all columns have the same row count.
C10_TableInvariant ==
    \A df \in {merged, cleaned, merged_df} : IsTable(df) => WellFormed(df)

=============================================================================
